---- MODULE Spec2Model ----
(***************************************************************************)
(* MarkdownHeaderTextSplitter (textsplitter/markdown_header.go).           *)
(*                                                                         *)
(* A string is a sequence of one-character strings, so that lengths        *)
(* (utf8.RuneCountInString), strings.Split and fmt.Sprintf are computed    *)
(* and not assumed.  A token is a record [kind, hlevel, content].  The     *)
(* mutually recursive walk (splitText / handlers / clone) runs on an       *)
(* explicit stack of markdownContext records: the top of the stack is the  *)
(* context whose splitText is running, the frames below it are the         *)
(* contexts whose handler waits for the clone it created.                  *)
(***************************************************************************)
EXTENDS Integers, Sequences, FiniteSets, TLC

VARIABLES
    doc,            \* the input document: a sequence of blocks
    cfg,            \* [chunkSize, chunkOverlap] of the splitter
    splitterFails,  \* the second splitter reports an error on every call
    stack,          \* the markdownContext frames, root first
    done,           \* SplitText has returned
    result,         \* the chunks SplitText returned
    err             \* the error SplitText returned ("nil" when none)

vars == <<doc, cfg, splitterFails, stack, done, result, err>>

----------------------------------------------------------------------------
(* Strings *)

NL == "\n"
SP == " "

\* the concatenation of a sequence of strings
RECURSIVE Concat(_)
Concat(ss) == IF ss = <<>> THEN <<>> ELSE Head(ss) \o Concat(Tail(ss))

\* strings.Join(parts, sep)
RECURSIVE JoinWith(_, _)
JoinWith(parts, sep) ==
    IF parts = <<>> THEN <<>>
    ELSE IF Len(parts) = 1 THEN parts[1]
    ELSE parts[1] \o sep \o JoinWith(Tail(parts), sep)

\* strings.Split(s, sep) for a one-character sep: n separators give n+1 parts
RECURSIVE SplitAcc(_, _, _, _)
SplitAcc(s, sep, cur, acc) ==
    IF s = <<>> THEN Append(acc, cur)
    ELSE IF Head(s) = sep THEN SplitAcc(Tail(s), sep, <<>>, Append(acc, cur))
    ELSE SplitAcc(Tail(s), sep, Append(cur, Head(s)), acc)

SplitOn(s, sep) == SplitAcc(s, sep, <<>>, <<>>)

\* every line of chunk prefixed: strings.Split / Sprintf(prefix + "%s") / strings.Join
PrefixLines(chunk, prefix) ==
    LET lines == SplitOn(chunk, NL)
    IN  JoinWith([i \in 1..Len(lines) |-> prefix \o lines[i]], <<NL>>)

\* fmt.Sprintf("%d", n) for n >= 0
RECURSIVE Itoa(_)
Itoa(n) ==
    LET digit == <<"0", "1", "2", "3", "4", "5", "6", "7", "8", "9">>
    IN  IF n < 10 THEN <<digit[n + 1]>> ELSE Itoa(n \div 10) \o <<digit[(n % 10) + 1]>>

RECURSIVE repeatString(_, _)
repeatString(count, initChar) ==
    IF count <= 0 THEN <<>> ELSE <<initChar>> \o repeatString(count - 1, initChar)

\* the elements of s that satisfy no separator role: s without the elements in drop
RECURSIVE Without(_, _)
Without(s, drop) ==
    IF s = <<>> THEN <<>>
    ELSE IF Head(s) \in drop THEN Without(Tail(s), drop)
    ELSE <<Head(s)>> \o Without(Tail(s), drop)

\* the elements of s that are in keep, in order
RECURSIVE Project(_, _)
Project(s, keep) ==
    IF s = <<>> THEN <<>>
    ELSE IF Head(s) \in keep THEN <<Head(s)>> \o Project(Tail(s), keep)
    ELSE Project(Tail(s), keep)

Has(s, c) == \E i \in 1..Len(s) : s[i] = c

StartsWith(s, p) == Len(s) >= Len(p) /\ SubSeq(s, 1, Len(p)) = p
EndsWith(s, p) == Len(s) >= Len(p) /\ SubSeq(s, Len(s) - Len(p) + 1, Len(s)) = p
Contains(s, p) == \E i \in 0..(Len(s) - Len(p)) : SubSeq(s, i + 1, i + Len(p)) = p

----------------------------------------------------------------------------
(* Tokens, as the markdown parser hands them to SplitText *)

\* children: the child tokens of an Inline, each [kind, content], where the
\* content of a LinkOpen or an Image is its target and that of a Text its text
Tok(k) == [kind |-> k, hlevel |-> 0, content |-> <<>>, children |-> <<>>]
HeadingOpenTok(level) == [Tok("HeadingOpen") EXCEPT !.hlevel = level]
InlineTok(text) ==
    [Tok("Inline") EXCEPT !.content = text,
                          !.children = << [kind |-> "Text", content |-> text] >>]
FenceTok(text) == [Tok("Fence") EXCEPT !.content = text]

\* the Inline of the link [text](href): Content is the source text
LinkInlineTok(text, href) ==
    [Tok("Inline") EXCEPT
        !.content = <<"[">> \o text \o <<"]", "(">> \o href \o <<")">>,
        !.children = << [kind |-> "LinkOpen", content |-> href],
                        [kind |-> "Text", content |-> text],
                        [kind |-> "LinkClose", content |-> <<>>] >>]

\* the Inline of the image ![alt](src)
ImageInlineTok(alt, src) ==
    [Tok("Inline") EXCEPT
        !.content = <<"!", "[">> \o alt \o <<"]", "(">> \o src \o <<")">>,
        !.children = << [kind |-> "Image", content |-> src] >>]

\* closeTypes: the close kind of each open kind; "nil" is the zero reflect.Type
\* of a kind that is no key of the map, equal to no token's type
closeTypes(kind) ==
    CASE kind = "HeadingOpen"     -> "HeadingClose"
      [] kind = "BulletListOpen"  -> "BulletListClose"
      [] kind = "OrderedListOpen" -> "OrderedListClose"
      [] kind = "ParagraphOpen"   -> "ParagraphClose"
      [] kind = "BlockquoteOpen"  -> "BlockquoteClose"
      [] kind = "ListItemOpen"    -> "ListItemClose"
      [] kind = "Fence"           -> "Fence"
      [] kind = "TableOpen"       -> "TableClose"
      [] kind = "TheadOpen"       -> "TheadClose"
      [] kind = "TbodyOpen"       -> "TbodyClose"
      [] OTHER                    -> "nil"

\* tokens[i] with the source's 0-based index; beyond the slice the kind is
\* "OutOfRange" (no well-formed token sequence reads there)
At(tokens, i) ==
    IF i >= 0 /\ i < Len(tokens) THEN tokens[i + 1] ELSE Tok("OutOfRange")

\* the loop of indexOfCloseTag without the count of same-kind open tokens
RECURSIVE CloseScan_NoNesting(_, _, _, _, _)
CloseScan_NoNesting(tokens, openType, closeType, idx, sameCount) ==
    IF idx >= Len(tokens) THEN idx
    ELSE IF closeType = tokens[idx + 1].kind THEN idx
    ELSE CloseScan_NoNesting(tokens, openType, closeType, idx + 1, sameCount)

\* the loop of indexOfCloseTag from idx on
RECURSIVE CloseScan(_, _, _, _, _)
CloseScan(tokens, openType, closeType, idx, sameCount) ==
    IF idx >= Len(tokens) THEN idx
    ELSE LET cur == tokens[idx + 1].kind
             sc1 == IF openType = cur THEN sameCount + 1 ELSE sameCount
         IN  IF closeType = cur
             THEN IF sc1 = 0 THEN idx
                  ELSE CloseScan(tokens, openType, closeType, idx + 1, sc1 - 1)
             ELSE CloseScan(tokens, openType, closeType, idx + 1, sc1)

indexOfCloseTag(tokens, startAt) ==
    LET openType == At(tokens, startAt).kind
    IN  CloseScan(tokens, openType, closeTypes(openType), startAt + 1, 0)

----------------------------------------------------------------------------
(* The second splitter: a collaborator given by its contract.  It cuts at   *)
(* line boundaries, then at word boundaries, never inside a word, merges    *)
(* neighbouring pieces while they fit the size, and returns no piece for    *)
(* an empty text.                                                           *)

NonEmpty(parts) == SelectSeq(parts, LAMBDA p : p # <<>>)

RECURSIVE GreedyMerge(_, _, _, _, _)
GreedyMerge(pieces, sep, size, cur, acc) ==
    IF pieces = <<>> THEN (IF cur = <<>> THEN acc ELSE Append(acc, cur))
    ELSE LET p == Head(pieces)
         IN  IF cur = <<>> THEN GreedyMerge(Tail(pieces), sep, size, p, acc)
             ELSE IF Len(cur) + Len(sep) + Len(p) <= size
                  THEN GreedyMerge(Tail(pieces), sep, size, cur \o sep \o p, acc)
                  ELSE GreedyMerge(Tail(pieces), sep, size, p, Append(acc, cur))

SplitPieces(text, size) ==
    LET byLine == GreedyMerge(NonEmpty(SplitOn(text, NL)), <<NL>>, size, <<>>, <<>>)
        byWord(piece) ==
            IF Len(piece) <= size THEN <<piece>>
            ELSE GreedyMerge(NonEmpty(SplitOn(piece, SP)), <<SP>>, size, <<>>, <<>>)
    IN  Concat([i \in 1..Len(byLine) |-> byWord(byLine[i])])

\* mc.secondSplitter.SplitText(text): the pieces; none when it reports an error
SecondSplitter(text, size) ==
    IF splitterFails THEN <<>> ELSE SplitPieces(text, size)

----------------------------------------------------------------------------
(* markdownContext *)

\* The fields of the struct, then the position of the walk in this context:
\* mode is the loop that runs ("walk": splitText's, "item": onListItem's),
\* itemEnd the endAt local of onListItem, call the handler that waits for the
\* clone above it ("none", "quote", "bullet", "ordered") with its endAt local
\* callEnd, flushed whether splitText has applied its last chunk.  errSeen
\* records an error of the second splitter that applyToChunks dropped, and
\* resplits counts the calls of the second splitter.
NewContext(tokens, chunkSize, chunkOverlap) ==
    [ startAt |-> 0, endAt |-> Len(tokens), tokens |-> tokens,
      hTitle |-> <<>>, hTitlePrepended |-> FALSE,
      orderedList |-> FALSE, bulletList |-> FALSE, listOrder |-> 0,
      indentLevel |-> 0,
      chunks |-> <<>>, curSnippet |-> <<>>,
      chunkSize |-> chunkSize, chunkOverlap |-> chunkOverlap,
      mode |-> "walk", itemEnd |-> 0, call |-> "none", callEnd |-> 0,
      flushed |-> FALSE, errSeen |-> FALSE, resplits |-> 0 ]

clone(mc, startAt, endAt) ==
    LET subTokens == SubSeq(mc.tokens, startAt + 1, endAt + 1)
    IN  [ NewContext(subTokens, mc.chunkSize, mc.chunkOverlap) EXCEPT
            !.hTitlePrepended = mc.hTitlePrepended,
            !.indentLevel = mc.indentLevel,
            !.orderedList = mc.orderedList ]

\* applyToChunks with the header title prepended to the first piece only
applyToChunks_HeaderOnFirstPiece(mc) ==
    LET fits   == Len(mc.curSnippet) <= mc.chunkSize + mc.chunkOverlap
        chunks == IF fits THEN <<mc.curSnippet>>
                  ELSE SecondSplitter(mc.curSnippet, mc.chunkSize)
        kept   == NonEmpty(chunks)
        out    == [i \in 1..Len(kept) |->
                     IF mc.hTitle # <<>> /\ i = 1 THEN mc.hTitle \o <<NL>> \o kept[i]
                     ELSE kept[i]]
        m1     == [mc EXCEPT !.curSnippet = <<>>,
                             !.errSeen = @ \/ (~fits /\ splitterFails),
                             !.resplits = IF fits THEN @ ELSE @ + 1]
    IN  IF Len(chunks) = 0 /\ mc.hTitle # <<>> /\ ~mc.hTitlePrepended
        THEN [m1 EXCEPT !.chunks = Append(@, mc.hTitle), !.hTitlePrepended = TRUE]
        ELSE [m1 EXCEPT !.chunks = @ \o out,
                        !.hTitlePrepended = IF kept # <<>> THEN TRUE ELSE @]

\* applyToChunks that never hands the snippet to the second splitter
applyToChunks_NoResplit(mc) ==
    LET kept == NonEmpty(<<mc.curSnippet>>)
        out  == [i \in 1..Len(kept) |->
                   IF mc.hTitle # <<>> THEN mc.hTitle \o <<NL>> \o kept[i] ELSE kept[i]]
    IN  [mc EXCEPT !.curSnippet = <<>>,
                   !.chunks = @ \o out,
                   !.hTitlePrepended = IF kept # <<>> THEN TRUE ELSE @]

\* applyToChunks with the snippet compared with chunkSize alone
applyToChunks_OverlapForgotten(mc) ==
    LET fits   == Len(mc.curSnippet) <= mc.chunkSize
        chunks == IF fits THEN <<mc.curSnippet>>
                  ELSE SecondSplitter(mc.curSnippet, mc.chunkSize)
        kept   == NonEmpty(chunks)
        out    == [i \in 1..Len(kept) |->
                     IF mc.hTitle # <<>> THEN mc.hTitle \o <<NL>> \o kept[i]
                     ELSE kept[i]]
        m1     == [mc EXCEPT !.curSnippet = <<>>,
                             !.errSeen = @ \/ (~fits /\ splitterFails),
                             !.resplits = IF fits THEN @ ELSE @ + 1]
    IN  IF Len(chunks) = 0 /\ mc.hTitle # <<>> /\ ~mc.hTitlePrepended
        THEN [m1 EXCEPT !.chunks = Append(@, mc.hTitle), !.hTitlePrepended = TRUE]
        ELSE [m1 EXCEPT !.chunks = @ \o out,
                        !.hTitlePrepended = IF kept # <<>> THEN TRUE ELSE @]

\* applyToChunks without the skip of an empty chunk
applyToChunks_KeepsEmpty(mc) ==
    LET fits   == Len(mc.curSnippet) <= mc.chunkSize + mc.chunkOverlap
        chunks == IF fits THEN <<mc.curSnippet>>
                  ELSE SecondSplitter(mc.curSnippet, mc.chunkSize)
        kept   == chunks
        out    == [i \in 1..Len(kept) |->
                     IF mc.hTitle # <<>> THEN mc.hTitle \o <<NL>> \o kept[i]
                     ELSE kept[i]]
        m1     == [mc EXCEPT !.curSnippet = <<>>,
                             !.errSeen = @ \/ (~fits /\ splitterFails),
                             !.resplits = IF fits THEN @ ELSE @ + 1]
    IN  IF Len(chunks) = 0 /\ mc.hTitle # <<>> /\ ~mc.hTitlePrepended
        THEN [m1 EXCEPT !.chunks = Append(@, mc.hTitle), !.hTitlePrepended = TRUE]
        ELSE [m1 EXCEPT !.chunks = @ \o out,
                        !.hTitlePrepended = IF kept # <<>> THEN TRUE ELSE @]

applyToChunks(mc) ==
    LET fits   == Len(mc.curSnippet) <= mc.chunkSize + mc.chunkOverlap
        chunks == IF fits THEN <<mc.curSnippet>>
                  ELSE SecondSplitter(mc.curSnippet, mc.chunkSize)
        kept   == NonEmpty(chunks)
        out    == [i \in 1..Len(kept) |->
                     IF mc.hTitle # <<>> THEN mc.hTitle \o <<NL>> \o kept[i]
                     ELSE kept[i]]
        m1     == [mc EXCEPT !.curSnippet = <<>>,
                             !.errSeen = @ \/ (~fits /\ splitterFails),
                             !.resplits = IF fits THEN @ ELSE @ + 1]
    IN  IF Len(chunks) = 0 /\ mc.hTitle # <<>> /\ ~mc.hTitlePrepended
        THEN [m1 EXCEPT !.chunks = Append(@, mc.hTitle), !.hTitlePrepended = TRUE]
        ELSE [m1 EXCEPT !.chunks = @ \o out,
                        !.hTitlePrepended = IF kept # <<>> THEN TRUE ELSE @]

\* joinSnippet with the comparison against the chunk size inverted
joinSnippet_Inverted(mc, snippet) ==
    IF mc.curSnippet = <<>> THEN [mc EXCEPT !.curSnippet = snippet]
    ELSE IF Len(mc.curSnippet) + Len(snippet) < mc.chunkSize
         THEN [applyToChunks(mc) EXCEPT !.curSnippet = snippet]
         ELSE [mc EXCEPT !.curSnippet = @ \o <<NL>> \o snippet]

\* joinSnippet with the newline counted in the comparison with the chunk size
joinSnippet_NewlineCounted(mc, snippet) ==
    IF mc.curSnippet = <<>> THEN [mc EXCEPT !.curSnippet = snippet]
    ELSE IF Len(mc.curSnippet) + 1 + Len(snippet) >= mc.chunkSize
         THEN [applyToChunks(mc) EXCEPT !.curSnippet = snippet]
         ELSE [mc EXCEPT !.curSnippet = @ \o <<NL>> \o snippet]

joinSnippet(mc, snippet) ==
    IF mc.curSnippet = <<>> THEN [mc EXCEPT !.curSnippet = snippet]
    ELSE IF Len(mc.curSnippet) + Len(snippet) >= mc.chunkSize
         THEN [applyToChunks(mc) EXCEPT !.curSnippet = snippet]
         ELSE [mc EXCEPT !.curSnippet = @ \o <<NL>> \o snippet]

\* joinSnippet for each chunk of a sequence, in order
RECURSIVE joinAll(_, _)
joinAll(mc, chunks) ==
    IF chunks = <<>> THEN mc ELSE joinAll(joinSnippet(mc, Head(chunks)), Tail(chunks))

splitInline(inline) == inline.content

----------------------------------------------------------------------------
(* Tables *)

\* the cell loop of splitTableHeader (cellOpen = "ThOpen") and of
\* splitTableBody (cellOpen = "TdOpen"), from the cursor s on: the cells read
\* and the cursor left behind
RECURSIVE CellScan(_, _, _, _)
CellScan(tokens, cellOpen, s, acc) ==
    IF At(tokens, s + 1).kind # cellOpen THEN [cells |-> acc, at |-> s]
    ELSE IF At(tokens, s + 2).kind # "Inline" THEN [cells |-> acc, at |-> s + 2]
    ELSE CellScan(tokens, cellOpen, s + 3, Append(acc, At(tokens, s + 2).content))

\* splitTableHeader with the cursor at TheadOpen: the header cells
splitTableHeader(tokens, startAt) ==
    IF At(tokens, startAt + 1).kind # "TrOpen" THEN <<>>
    ELSE CellScan(tokens, "ThOpen", startAt + 1, <<>>).cells

\* the row loop of splitTableBody from the cursor s on
RECURSIVE RowScan(_, _, _)
RowScan(tokens, s, rows) ==
    IF At(tokens, s + 1).kind # "TrOpen" THEN rows
    ELSE LET r == CellScan(tokens, "TdOpen", s + 1, <<>>)
         IN  RowScan(tokens, r.at + 1, Append(rows, r.cells))

\* splitTableBody with the cursor at TbodyOpen: the body rows
splitTableBody(tokens, startAt) == RowScan(tokens, startAt, <<>>)

\* "| c1 | c2 |" for the cells of one row
RowMD(row) ==
    Concat([i \in 1..Len(row) |->
              <<"|", SP>> \o row[i] \o <<SP>> \o (IF i = Len(row) THEN <<"|">> ELSE <<>>)])

\* "| --- | --- |" for n columns
SeparatorMD(n) ==
    Concat([i \in 1..n |->
              <<"|", SP, "-", "-", "-", SP>> \o (IF i = n THEN <<"|">> ELSE <<>>)])

\* the row loop of splitTableRows: each row joined and applied
RECURSIVE applyRows(_, _, _)
applyRows(mc, headerMD, bodies) ==
    IF bodies = <<>> THEN mc
    ELSE applyRows(applyToChunks(joinSnippet(mc, headerMD \o <<NL>> \o RowMD(Head(bodies)))),
                   headerMD, Tail(bodies))

splitTableRows(mc, header0, bodies0) ==
    LET headnoteEmpty == \E i \in 1..Len(header0) : header0[i] # <<>>
        promote  == ~headnoteEmpty /\ Len(bodies0) # 0
        header   == IF promote THEN bodies0[1] ELSE header0
        bodies   == IF promote THEN Tail(bodies0) ELSE bodies0
        headerMD == RowMD(header) \o <<NL>> \o SeparatorMD(Len(header))
    IN  IF Len(bodies) = 0 THEN applyToChunks(joinSnippet(mc, headerMD))
        ELSE applyRows(mc, headerMD, bodies)

\* onMDTable: the context after the handler
onMDTable(mc) ==
    LET endAt == indexOfCloseTag(mc.tokens, mc.startAt)
    IN  IF At(mc.tokens, mc.startAt + 1).kind # "TheadOpen"
        THEN [mc EXCEPT !.startAt = endAt + 1]
        ELSE LET theadAt == mc.startAt + 1
                 header  == splitTableHeader(mc.tokens, theadAt)
                 tbodyAt == indexOfCloseTag(mc.tokens, theadAt) + 1
                 bodies  == splitTableBody(mc.tokens, tbodyAt)
             IN  [splitTableRows(mc, header, bodies) EXCEPT !.startAt = endAt + 1]

----------------------------------------------------------------------------
(* Documents.  A block is [toks, content, raw]: the tokens the parser gives *)
(* for it, the characters of its text that a rendering of the supported     *)
(* content shows (in order), and its markdown source.                       *)

FlatToks(blocks) == Concat([i \in 1..Len(blocks) |-> blocks[i].toks])
FlatContent(blocks) == Concat([i \in 1..Len(blocks) |-> blocks[i].content])
FlatRaw(blocks, sep) == JoinWith([i \in 1..Len(blocks) |-> blocks[i].raw], sep)

\* format: HeadingOpen/Inline/HeadingClose
Heading(level, text) ==
    [ toks |-> <<HeadingOpenTok(level), InlineTok(text), Tok("HeadingClose")>>,
      content |-> <<>>,
      raw |-> repeatString(level, "#") \o <<SP>> \o text ]

\* format: ParagraphOpen/Inline/ParagraphClose
Paragraph(text) ==
    [ toks |-> <<Tok("ParagraphOpen"), InlineTok(text), Tok("ParagraphClose")>>,
      content |-> Without(text, {SP}),
      raw |-> text ]

\* a fenced code block is the single token Fence
Fence(code) ==
    [ toks |-> <<FenceTok(code)>>,
      content |-> <<>>,
      raw |-> <<"~", "~", "~", NL>> \o code \o <<NL, "~", "~", "~">> ]

\* a thematic break is the single token Hr
Hr ==
    [ toks |-> <<Tok("Hr")>>, content |-> <<>>, raw |-> <<"-", "-", "-">> ]

\* format: ListItemOpen/ParagraphOpen/Inline/ParagraphClose/[BulletList]*/ListItemClose
ListItem(text, sublists) ==
    [ toks |-> <<Tok("ListItemOpen"), Tok("ParagraphOpen"), InlineTok(text),
                 Tok("ParagraphClose")>> \o FlatToks(sublists) \o <<Tok("ListItemClose")>>,
      content |-> Without(text, {SP}) \o FlatContent(sublists),
      raw |-> IF sublists = <<>> THEN text
              ELSE text \o <<NL>> \o PrefixLines(FlatRaw(sublists, <<NL>>), <<SP, SP, SP>>) ]

\* a list item whose paragraph holds the given Inline
InlineItem(inline) ==
    [ toks |-> <<Tok("ListItemOpen"), Tok("ParagraphOpen"), inline,
                 Tok("ParagraphClose"), Tok("ListItemClose")>>,
      content |-> inline.content,
      raw |-> inline.content ]

\* a heading without text: HeadingOpen/HeadingClose, no Inline between them
HeadingEmpty(level) ==
    [ toks |-> <<HeadingOpenTok(level), Tok("HeadingClose")>>,
      content |-> <<>>,
      raw |-> repeatString(level, "#") ]

\* format: BulletListOpen/[ListItem]*/BulletListClose
BulletList(items) ==
    [ toks |-> <<Tok("BulletListOpen")>> \o FlatToks(items) \o <<Tok("BulletListClose")>>,
      content |-> FlatContent(items),
      raw |-> JoinWith([i \in 1..Len(items) |-> <<"-", SP>> \o items[i].raw], <<NL>>) ]

\* format: OrderedListOpen/[ListItem]*/OrderedListClose
OrderedList(items) ==
    [ toks |-> <<Tok("OrderedListOpen")>> \o FlatToks(items) \o <<Tok("OrderedListClose")>>,
      content |-> FlatContent(items),
      raw |-> JoinWith([i \in 1..Len(items) |-> Itoa(i) \o <<".", SP>> \o items[i].raw], <<NL>>) ]

\* format: BlockquoteOpen/[Any]*/BlockquoteClose
Blockquote(body) ==
    [ toks |-> <<Tok("BlockquoteOpen")>> \o FlatToks(body) \o <<Tok("BlockquoteClose")>>,
      content |-> FlatContent(body),
      raw |-> PrefixLines(FlatRaw(body, <<NL, NL>>), <<">", SP>>) ]

TableCells(open, close, row) ==
    Concat([i \in 1..Len(row) |-> <<Tok(open), InlineTok(row[i]), Tok(close)>>])

TableRowToks(open, close, row) ==
    <<Tok("TrOpen")>> \o TableCells(open, close, row) \o <<Tok("TrClose")>>

\* the header cells and the body rows that a rendering shows: the first body
\* row stands for the header when no header cell has text
ShownHeader(header, rows) ==
    IF (\A i \in 1..Len(header) : header[i] = <<>>) /\ rows # <<>> THEN rows[1] ELSE header

ShownRows(header, rows) ==
    IF (\A i \in 1..Len(header) : header[i] = <<>>) /\ rows # <<>> THEN Tail(rows) ELSE rows

\* format: TableOpen/THeadOpen/[..]/THeadClose/TBodyOpen/[..]/TBodyClose/TableClose
Table(header, rows) ==
    [ toks |-> <<Tok("TableOpen"), Tok("TheadOpen")>>
               \o TableRowToks("ThOpen", "ThClose", header)
               \o <<Tok("TheadClose"), Tok("TbodyOpen")>>
               \o Concat([i \in 1..Len(rows) |-> TableRowToks("TdOpen", "TdClose", rows[i])])
               \o <<Tok("TbodyClose"), Tok("TableClose")>>,
      content |->
          LET h == ShownHeader(header, rows)
              b == ShownRows(header, rows)
          IN  IF b = <<>> THEN Concat(h)
              ELSE Concat([i \in 1..Len(b) |-> Concat(h) \o Concat(b[i])]),
      raw |-> JoinWith(<<RowMD(header), SeparatorMD(Len(header))>>
                       \o [i \in 1..Len(rows) |-> RowMD(rows[i])], <<NL>>) ]

\* the blocks documents are made of
BlockNames ==
    { "H3", "G1", "ParaA", "FenceX", "Hr", "BulletAB", "BulletLong", "BulletNested",
      "OrderedNested", "QuoteList", "Table1", "TablePromoted", "TableNoRows" }

Block(name) ==
    CASE name = "H3"            -> Heading(3, <<"H">>)
      [] name = "G1"            -> Heading(1, <<"G">>)
      [] name = "ParaA"         -> Paragraph(<<"p">>)
      [] name = "FenceX"        -> Fence(<<"x">>)
      [] name = "Hr"            -> Hr
      [] name = "BulletAB"      -> BulletList(<<ListItem(<<"a">>, <<>>), ListItem(<<"b">>, <<>>)>>)
      [] name = "BulletLong"    -> BulletList(<<ListItem(<<"c", "c", "c", "c", "c", "c", "c", SP, "d", "d">>, <<>>)>>)
      [] name = "BulletNested"  ->
             BulletList(<<ListItem(<<"m">>, <<BulletList(<<ListItem(<<"n">>, <<>>)>>)>>)>>)
      [] name = "OrderedNested" ->
             OrderedList(<<ListItem(<<"e">>, <<BulletList(<<ListItem(<<"f">>, <<>>)>>)>>),
                           ListItem(<<"g">>, <<Fence(<<"y">>)>>)>>)
      [] name = "QuoteList"     ->
             Blockquote(<<Heading(2, <<"Q">>), BulletList(<<ListItem(<<"q">>, <<>>)>>)>>)
      [] name = "Table1"        -> Table(<<<<"c">>>>, <<<<<<"v">>>>>>)
      [] name = "TablePromoted" -> Table(<<<<>>>>, <<<<<<"h">>>>, <<<<"w">>>>>>)
      [] name = "TableNoRows"   -> Table(<<<<"k">>>>, <<>>)
      [] name = "HeadingNoText" -> HeadingEmpty(2)
      [] name = "BulletDeep"    ->
             BulletList(<<ListItem(<<"r">>,
                <<BulletList(<<ListItem(<<"s">>,
                   <<BulletList(<<ListItem(<<"t">>, <<>>)>>)>>)>>)>>)>>)
      [] name = "OrderedDeep"   ->
             OrderedList(<<ListItem(<<"r">>,
                <<OrderedList(<<ListItem(<<"s">>,
                   <<BulletList(<<ListItem(<<"t">>, <<>>)>>)>>)>>)>>),
                           ListItem(<<"u">>, <<>>)>>)
      [] name = "BulletLink"    ->
             BulletList(<<InlineItem(LinkInlineTok(<<"l">>, <<"u">>)),
                          InlineItem(InlineTok(<<"z">>))>>)
      [] name = "BulletImage"   ->
             BulletList(<<InlineItem(InlineTok(<<"z">>)),
                          InlineItem(ImageInlineTok(<<"i">>, <<"j">>))>>)

MaxBlocks == 2

\* further documents: content under a heading and under the next heading, the
\* first document of the tests (heading, bullet list, paragraph), blocks
\* around an ignored block, a heading without text, lists nested three deep,
\* and items that are a link or an image
LongDocs ==
    { <<"H3", "BulletAB", "G1", "BulletLong">>,
      <<"H3", "BulletAB", "ParaA">>,
      <<"H3", "BulletAB", "FenceX", "OrderedNested">>,
      <<"G1", "QuoteList", "H3", "Table1">>,
      <<"H3", "BulletAB", "HeadingNoText", "BulletAB">>,
      <<"HeadingNoText">>,
      <<"BulletDeep">>,
      <<"OrderedDeep">>,
      <<"BulletLink">>,
      <<"BulletImage">> }

Docs == UNION { [1..n -> BlockNames] : n \in 1..MaxBlocks } \cup LongDocs

DocBlocks(d) == [i \in 1..Len(d) |-> Block(d[i])]
DocTokens(d) == FlatToks(DocBlocks(d))
DocContent(d) == FlatContent(DocBlocks(d))
DocRaw(d) == FlatRaw(DocBlocks(d), <<NL, NL>>)

\* the splitter options of the runs: the options of the tests, and small
\* budgets that make snippets reach the chunk size
Setups ==
    { [chunkSize |-> 64, chunkOverlap |-> 32, fails |-> FALSE],
      [chunkSize |-> 4,  chunkOverlap |-> 2,  fails |-> FALSE],
      [chunkSize |-> 4,  chunkOverlap |-> 2,  fails |-> TRUE],
      [chunkSize |-> 12, chunkOverlap |-> 0,  fails |-> FALSE],
      [chunkSize |-> 3,  chunkOverlap |-> 1,  fails |-> FALSE] }

----------------------------------------------------------------------------
(* The walk *)

Top == stack[Len(stack)]
SetTop(mc) == [stack EXCEPT ![Len(stack)] = mc]

\* the context on top runs one of its loops
Running == ~done /\ ~Top.flushed /\ Top.call = "none"

\* the loop of splitText is at a token of this kind
Walking == Running /\ Top.mode = "walk" /\ Top.startAt < Top.endAt

\* the loop of onListItem is at a token
InItem == Running /\ Top.mode = "item" /\ Top.startAt < Top.itemEnd

CurKind == At(Top.tokens, Top.startAt).kind

WalkerKinds ==
    { "HeadingOpen", "TableOpen", "ParagraphOpen", "BlockquoteOpen", "BulletListOpen",
      "OrderedListOpen", "ListItemOpen" }

Init ==
    /\ doc \in Docs
    /\ \E s \in Setups :
          /\ cfg = [chunkSize |-> s.chunkSize, chunkOverlap |-> s.chunkOverlap]
          /\ splitterFails = s.fails
          /\ stack = <<NewContext(DocTokens(doc), s.chunkSize, s.chunkOverlap)>>
    /\ done = FALSE
    /\ result = <<>>
    /\ err = "nil"

\* onMDHeader without the applyToChunks that comes before the header changes
onMDHeader_NoClose(mc) ==
    LET endAt  == indexOfCloseTag(mc.tokens, mc.startAt)
        header == At(mc.tokens, mc.startAt)
        inline == At(mc.tokens, mc.startAt + 1)
    IN  IF inline.kind # "Inline" THEN [mc EXCEPT !.startAt = endAt + 1]
        ELSE [mc EXCEPT
                !.hTitle = repeatString(header.hlevel, "#") \o <<SP>> \o inline.content,
                !.hTitlePrepended = FALSE,
                !.startAt = endAt + 1]

\* onMDHeader closing the pending snippet before it looks for the Inline
onMDHeader_ClosesFirst(mc) ==
    LET endAt  == indexOfCloseTag(mc.tokens, mc.startAt)
        header == At(mc.tokens, mc.startAt)
        inline == At(mc.tokens, mc.startAt + 1)
    IN  IF inline.kind # "Inline" THEN [applyToChunks(mc) EXCEPT !.startAt = endAt + 1]
        ELSE [applyToChunks(mc) EXCEPT
                !.hTitle = repeatString(header.hlevel, "#") \o <<SP>> \o inline.content,
                !.hTitlePrepended = FALSE,
                !.startAt = endAt + 1]

onMDHeader(mc) ==
    LET endAt  == indexOfCloseTag(mc.tokens, mc.startAt)
        header == At(mc.tokens, mc.startAt)
        inline == At(mc.tokens, mc.startAt + 1)
    IN  IF inline.kind # "Inline" THEN [mc EXCEPT !.startAt = endAt + 1]
        ELSE [applyToChunks(mc) EXCEPT
                !.hTitle = repeatString(header.hlevel, "#") \o <<SP>> \o inline.content,
                !.hTitlePrepended = FALSE,
                !.startAt = endAt + 1]

OnMDHeader ==
    /\ Walking /\ CurKind = "HeadingOpen"
    /\ stack' = SetTop(onMDHeader(Top))
    /\ UNCHANGED <<doc, cfg, splitterFails, done, result, err>>

\* the inline text is resolved and the result is not used
onMDParagraph(mc) ==
    LET endAt == indexOfCloseTag(mc.tokens, mc.startAt)
    IN  [mc EXCEPT !.startAt = endAt + 1]

OnMDParagraph ==
    /\ Walking /\ CurKind = "ParagraphOpen"
    /\ stack' = SetTop(onMDParagraph(Top))
    /\ UNCHANGED <<doc, cfg, splitterFails, done, result, err>>

OnMDTable ==
    /\ Walking /\ CurKind = "TableOpen"
    /\ stack' = SetTop(onMDTable(Top))
    /\ UNCHANGED <<doc, cfg, splitterFails, done, result, err>>

\* OnMDQuote with the header title of the outer context given to the clone
OnMDQuote_TitleInherited ==
    /\ Walking /\ CurKind = "BlockquoteOpen"
    /\ LET endAt == indexOfCloseTag(Top.tokens, Top.startAt)
           tmpMC == [clone(Top, Top.startAt + 1, endAt - 1) EXCEPT !.hTitle = Top.hTitle]
       IN  stack' = Append(SetTop([Top EXCEPT !.call = "quote", !.callEnd = endAt]), tmpMC)
    /\ UNCHANGED <<doc, cfg, splitterFails, done, result, err>>

\* onMDQuote up to tmpMC.splitText(): the clone starts its walk
OnMDQuote ==
    /\ Walking /\ CurKind = "BlockquoteOpen"
    /\ LET endAt == indexOfCloseTag(Top.tokens, Top.startAt)
           tmpMC == [clone(Top, Top.startAt + 1, endAt - 1) EXCEPT !.hTitle = <<>>]
       IN  stack' = Append(SetTop([Top EXCEPT !.call = "quote", !.callEnd = endAt]), tmpMC)
    /\ UNCHANGED <<doc, cfg, splitterFails, done, result, err>>

\* quoteJoin with "> " put before each chunk, not before each of its lines
quoteJoin_FirstLineOnly(mc, chunks) ==
    applyToChunks(joinAll(mc, [i \in 1..Len(chunks) |-> <<">", SP>> \o chunks[i]]))

\* the chunks of the clone joined into mc, every line prefixed with "> "
quoteJoin(mc, chunks) ==
    applyToChunks(joinAll(mc, [i \in 1..Len(chunks) |-> PrefixLines(chunks[i], <<">", SP>>)]))

\* the context that waits for the clone on top, which has returned
Returning(handler) ==
    /\ ~done /\ Len(stack) >= 2 /\ Top.flushed
    /\ stack[Len(stack) - 1].call = handler

Caller == stack[Len(stack) - 1]
Return(mc) == [SubSeq(stack, 1, Len(stack) - 1) EXCEPT ![Len(stack) - 1] = mc]

\* onMDQuote from the return of tmpMC.splitText() on
OnMDQuoteReturn ==
    /\ Returning("quote")
    /\ stack' = Return([quoteJoin(Caller, Top.chunks) EXCEPT
                          !.startAt = Caller.callEnd + 1,
                          !.call = "none",
                          !.errSeen = @ \/ Top.errSeen])
    /\ UNCHANGED <<doc, cfg, splitterFails, done, result, err>>

\* listJoin with two spaces for every level of the clone beyond the first
listJoin_IndentByLevel(mc, tempMD) ==
    joinAll(mc, [i \in 1..Len(tempMD.chunks) |->
                   PrefixLines(tempMD.chunks[i],
                               repeatString(2 * (tempMD.indentLevel - 1), SP))])

\* the chunks of the clone joined into mc, indented when the clone is nested
listJoin(mc, tempMD) ==
    joinAll(mc, [i \in 1..Len(tempMD.chunks) |->
                   IF tempMD.indentLevel > 1
                   THEN PrefixLines(tempMD.chunks[i], <<SP, SP>>)
                   ELSE tempMD.chunks[i]])

\* onMDBulletList up to tempMD.splitText()
OnMDBulletList ==
    /\ (Walking \/ InItem) /\ CurKind = "BulletListOpen"
    /\ LET endAt  == indexOfCloseTag(Top.tokens, Top.startAt)
           mc     == [Top EXCEPT !.indentLevel = @ + 1, !.bulletList = TRUE,
                                 !.startAt = @ + 1]
           tempMD == clone(mc, mc.startAt, endAt - 1)
       IN  stack' = Append(SetTop([mc EXCEPT !.call = "bullet", !.callEnd = endAt]), tempMD)
    /\ UNCHANGED <<doc, cfg, splitterFails, done, result, err>>

\* OnMDBulletListReturn with a defer that leaves indentLevel as it is
OnMDBulletListReturn_NoDecrement ==
    /\ Returning("bullet")
    /\ stack' = Return([listJoin(Caller, Top) EXCEPT
                          !.startAt = Caller.callEnd + 1,
                          !.bulletList = FALSE,
                          !.listOrder = 0,
                          !.call = "none",
                          !.errSeen = @ \/ Top.errSeen])
    /\ UNCHANGED <<doc, cfg, splitterFails, done, result, err>>

\* onMDBulletList from the return of tempMD.splitText() on, with its defer
OnMDBulletListReturn ==
    /\ Returning("bullet")
    /\ stack' = Return([listJoin(Caller, Top) EXCEPT
                          !.startAt = Caller.callEnd + 1,
                          !.indentLevel = @ - 1,
                          !.bulletList = FALSE,
                          !.listOrder = 0,
                          !.call = "none",
                          !.errSeen = @ \/ Top.errSeen])
    /\ UNCHANGED <<doc, cfg, splitterFails, done, result, err>>

\* onMDOrderedList up to tempMD.splitText()
OnMDOrderedList ==
    /\ (Walking \/ InItem) /\ CurKind = "OrderedListOpen"
    /\ LET endAt  == indexOfCloseTag(Top.tokens, Top.startAt)
           mc     == [Top EXCEPT !.indentLevel = @ + 1, !.startAt = @ + 1,
                                 !.orderedList = TRUE]
           tempMD == clone(mc, mc.startAt, endAt - 1)
       IN  stack' = Append(SetTop([mc EXCEPT !.call = "ordered", !.callEnd = endAt]), tempMD)
    /\ UNCHANGED <<doc, cfg, splitterFails, done, result, err>>

\* onMDOrderedList from the return of tempMD.splitText() on, with its defer
OnMDOrderedListReturn ==
    /\ Returning("ordered")
    /\ stack' = Return([listJoin(Caller, Top) EXCEPT
                          !.startAt = Caller.callEnd + 1,
                          !.indentLevel = @ - 1,
                          !.orderedList = FALSE,
                          !.listOrder = 0,
                          !.call = "none",
                          !.errSeen = @ \/ Top.errSeen])
    /\ UNCHANGED <<doc, cfg, splitterFails, done, result, err>>

\* onListItem up to its loop
OnListItem ==
    /\ Walking /\ CurKind = "ListItemOpen"
    /\ stack' = SetTop([Top EXCEPT !.itemEnd = indexOfCloseTag(Top.tokens, Top.startAt),
                                   !.startAt = @ + 1,
                                   !.mode = "item"])
    /\ UNCHANGED <<doc, cfg, splitterFails, done, result, err>>

\* onMDListItemParagraph without the defer that moves the cursor past the paragraph
onMDListItemParagraph_CursorKept(mc) ==
    LET inline == At(mc.tokens, mc.startAt + 1)
        order  == IF mc.orderedList THEN mc.listOrder + 1 ELSE mc.listOrder
        line0  == splitInline(inline)
        line1  == IF mc.orderedList THEN Itoa(order) \o <<".", SP>> \o line0 ELSE line0
        line   == IF mc.bulletList THEN <<"-", SP>> \o line1 ELSE line1
    IN  IF inline.kind # "Inline" THEN mc
        ELSE joinSnippet([mc EXCEPT !.listOrder = order], line)

onMDListItemParagraph(mc) ==
    LET endAt  == indexOfCloseTag(mc.tokens, mc.startAt)
        inline == At(mc.tokens, mc.startAt + 1)
        order  == IF mc.orderedList THEN mc.listOrder + 1 ELSE mc.listOrder
        line0  == splitInline(inline)
        line1  == IF mc.orderedList THEN Itoa(order) \o <<".", SP>> \o line0 ELSE line0
        line   == IF mc.bulletList THEN <<"-", SP>> \o line1 ELSE line1
    IN  IF inline.kind # "Inline" THEN [mc EXCEPT !.startAt = endAt + 1]
        ELSE [joinSnippet([mc EXCEPT !.listOrder = order], line) EXCEPT
                !.startAt = endAt + 1]

OnMDListItemParagraph ==
    /\ InItem /\ CurKind = "ParagraphOpen"
    /\ stack' = SetTop(onMDListItemParagraph(Top))
    /\ UNCHANGED <<doc, cfg, splitterFails, done, result, err>>

\* the default case of the loop of onListItem
OnListItemSkip ==
    /\ InItem /\ CurKind \notin {"ParagraphOpen", "BulletListOpen", "OrderedListOpen"}
    /\ stack' = SetTop([Top EXCEPT !.startAt = @ + 1])
    /\ UNCHANGED <<doc, cfg, splitterFails, done, result, err>>

\* the loop of onListItem ends and its defer runs
OnListItemEnd ==
    /\ Running /\ Top.mode = "item" /\ Top.startAt >= Top.itemEnd
    /\ stack' = SetTop([Top EXCEPT !.startAt = Top.itemEnd + 1, !.mode = "walk"])
    /\ UNCHANGED <<doc, cfg, splitterFails, done, result, err>>

\* the default case of the loop of splitText
SkipToken ==
    /\ Walking /\ CurKind \notin WalkerKinds
    /\ stack' = SetTop([Top EXCEPT !.startAt = indexOfCloseTag(Top.tokens, Top.startAt) + 1])
    /\ UNCHANGED <<doc, cfg, splitterFails, done, result, err>>

\* the loop of splitText ends: apply the last chunk, return mc.chunks
Flush ==
    /\ Running /\ Top.mode = "walk" /\ Top.startAt >= Top.endAt
    /\ stack' = SetTop([applyToChunks(Top) EXCEPT !.flushed = TRUE])
    /\ UNCHANGED <<doc, cfg, splitterFails, done, result, err>>

\* SplitText returns the chunks of the root context and a nil error
SplitTextReturn ==
    /\ ~done /\ Len(stack) = 1 /\ Top.flushed
    /\ result' = Top.chunks
    /\ err' = "nil"
    /\ done' = TRUE
    /\ UNCHANGED <<doc, cfg, splitterFails, stack>>

Next ==
    \/ OnMDHeader
    \/ OnMDParagraph
    \/ OnMDTable
    \/ OnMDQuote
    \/ OnMDQuoteReturn
    \/ OnMDBulletList
    \/ OnMDBulletListReturn
    \/ OnMDOrderedList
    \/ OnMDOrderedListReturn
    \/ OnListItem
    \/ OnMDListItemParagraph
    \/ OnListItemSkip
    \/ OnListItemEnd
    \/ SkipToken
    \/ Flush
    \/ SplitTextReturn

Spec == Init /\ [][Next]_vars

----------------------------------------------------------------------------
(* Properties *)

Root == stack[1]
Budget == cfg.chunkSize + cfg.chunkOverlap

FirstLine(chunk) == SplitOn(chunk, NL)[1]

\* the characters of the texts of the blocks; the heading texts are upper case
ContentChars ==
    {"a", "b", "c", "d", "e", "f", "g", "h", "k", "m", "n", "p", "q", "r", "s", "t",
     "u", "v", "w", "x", "y", "z"}

\* the kinds of the blocks the splitter supports
SupportedOpen ==
    {"HeadingOpen", "ParagraphOpen", "BulletListOpen", "OrderedListOpen", "BlockquoteOpen",
     "TableOpen"}

HasSupportedBlock == \E i \in 1..Len(Root.tokens) : Root.tokens[i].kind \in SupportedOpen

\* the document holds a table
HasTable == \E i \in 1..Len(Root.tokens) : Root.tokens[i].kind = "TableOpen"

\* a chunk without the header line that applyToChunks prepended
Body(chunk) ==
    IF chunk # <<>> /\ chunk[1] = "#"
    THEN JoinWith(Tail(SplitOn(chunk, NL)), <<NL>>)
    ELSE chunk

\* the words of a text: its lines cut at the spaces
Words(text) ==
    LET lines == SplitOn(text, NL)
    IN  Concat([k \in 1..Len(lines) |-> SplitOn(lines[k], SP)])

\* the text holds a fragment that cannot be cut and alone exceeds the budget
HasOversizedWord(text) == \E j \in 1..Len(Words(text)) : Len(Words(text)[j]) > Budget

\* C1: for every input with at least one supported block, the returned
\* chunks, read in order and without the header lines, show the content of
\* every supported block exactly once and in document order.
Coverage ==
    (done /\ HasSupportedBlock) => Project(Concat(result), ContentChars) = DocContent(doc)

\* C2: when the walker hands a paragraph to the paragraph handler, the
\* paragraph's inline text is joined into the pending snippet.
ParagraphJoined ==
    [][ (Walking /\ CurKind = "ParagraphOpen"
           /\ At(Top.tokens, Top.startAt + 1).kind = "Inline")
        => Contains(stack'[Len(stack)].curSnippet, At(Top.tokens, Top.startAt + 1).content)
      ]_vars

\* C3: every chunk the root context emits while a heading is the active
\* header has that heading's markup as its first line, the pieces of the
\* second splitter included.
HeaderPropagation ==
    [][ \A i \in (Len(Root.chunks) + 1)..Len(stack'[1].chunks) :
           Root.hTitle # <<>> => FirstLine(stack'[1].chunks[i]) = Root.hTitle ]_vars

\* C3 witness: under a heading the root context has emitted the pieces of a
\* re-split snippet, each with the heading as first line
HeaderOnSplitPieces ==
    /\ Root.hTitle # <<>>
    /\ Root.resplits > 0
    /\ Len(Root.chunks) >= 2
    /\ \A i \in 1..Len(Root.chunks) : FirstLine(Root.chunks[i]) = Root.hTitle

\* the table at the cursor has a header with text and n >= 1 body rows
TableAtCursor(n) ==
    /\ Walking /\ CurKind = "TableOpen"
    /\ At(Top.tokens, Top.startAt + 1).kind = "TheadOpen"
    /\ LET theadAt == Top.startAt + 1
           header  == splitTableHeader(Top.tokens, theadAt)
           bodies  == splitTableBody(Top.tokens, indexOfCloseTag(Top.tokens, theadAt) + 1)
       IN  /\ \E i \in 1..Len(header) : header[i] # <<>>
           /\ Len(bodies) = n

\* C4: the table handler emits exactly n chunks for a table with a header
\* and n >= 1 body rows, whatever chunkSize and chunkOverlap are (stated for
\* a handler that starts with no snippet pending, so that every chunk it
\* emits is the table's, and for a second splitter that reports no error).
TableRowPerChunk ==
    [][ \A n \in 1..3 :
           (TableAtCursor(n) /\ Top.curSnippet = <<>> /\ ~splitterFails)
           => Len(stack'[Len(stack)].chunks) = Len(Top.chunks) + n ]_vars

ScenarioRun ==
    /\ done
    /\ doc = <<"H3", "BulletAB">>
    /\ cfg = [chunkSize |-> 64, chunkOverlap |-> 32]
    /\ ~splitterFails

FenceDropped ==
    done =>
        /\ doc = <<"ParaA", "FenceX">> => result = << <<"p">> >>
        /\ \A i \in 1..Len(result) : ~Has(result[i], "x") /\ ~Has(result[i], "y")

\* C8: when the walk of a non-empty input yields no chunk, SplitText returns
\* what the second splitter makes of the raw input, and that is not empty.
WholeDocumentFallback ==
    (done /\ Root.chunks = <<>> /\ DocRaw(doc) # <<>>)
    => /\ result = SecondSplitter(DocRaw(doc), cfg.chunkSize)
       /\ ~splitterFails => result # <<>>

\* C9: a failure of the second splitter while a snippet is closed is
\* returned by SplitText.
SplitterFailureReturned ==
    (done /\ Root.errSeen) => err # "nil"

\* the context on top closes an empty snippet now: by the heading handler
\* or by the final flush
ClosesEmptySnippet ==
    /\ Running /\ Top.mode = "walk"
    /\ \/ Top.startAt >= Top.endAt
       \/ /\ CurKind = "HeadingOpen"
          /\ At(Top.tokens, Top.startAt + 1).kind = "Inline"
    /\ Top.curSnippet = <<>>

\* C10: when a snippet is closed empty while a heading is set that was not
\* yet prepended to a chunk, the heading text alone is emitted as a chunk.
HeaderOnlyEmitted ==
    [][ (ClosesEmptySnippet /\ Top.hTitle # <<>> /\ ~Top.hTitlePrepended)
        => stack'[Len(stack)].chunks = Append(Top.chunks, Top.hTitle) ]_vars

\* the context on top is at a table with a header section
AtTable ==
    /\ Walking /\ CurKind = "TableOpen"
    /\ At(Top.tokens, Top.startAt + 1).kind = "TheadOpen"

\* the chunks the context on top emits in this step
Emitted ==
    SubSeq(stack'[Len(stack)].chunks, Len(Top.chunks) + 1, Len(stack'[Len(stack)].chunks))

\* C11: the first body row of a table is used as the header and removed from
\* the body if and only if every declared header cell is empty (or there is
\* none) and the table has at least one body row; otherwise the declared
\* header is kept; each remaining body row then forms one chunk: the header,
\* the separator line and the row (stated for a handler that starts with no
\* snippet pending and a second splitter that reports no error).
HeaderPromotion ==
    [][ (AtTable /\ Top.curSnippet = <<>> /\ ~splitterFails) =>
          LET header0  == splitTableHeader(Top.tokens, Top.startAt + 1)
              bodies0  == splitTableBody(Top.tokens,
                                         indexOfCloseTag(Top.tokens, Top.startAt + 1) + 1)
              promoted == (\A i \in 1..Len(header0) : header0[i] = <<>>) /\ bodies0 # <<>>
              header   == IF promoted THEN bodies0[1] ELSE header0
              rows     == IF promoted THEN Tail(bodies0) ELSE bodies0
              headerMD == RowMD(header) \o <<NL>> \o SeparatorMD(Len(header))
          IN  rows # <<>> =>
                /\ Len(Emitted) = Len(rows)
                /\ \A i \in 1..Len(rows) :
                      Body(Emitted[i]) = headerMD \o <<NL>> \o RowMD(rows[i]) ]_vars

\* the loop of onListItem is at the paragraph of an item
AtItemParagraph ==
    /\ InItem /\ CurKind = "ParagraphOpen"
    /\ At(Top.tokens, Top.startAt + 1).kind = "Inline"
    /\ Len(stack) >= 2

\* the inline text of the item at the cursor
ItemText == At(Top.tokens, Top.startAt + 1).content

LastLine(text) == SplitOn(text, NL)[Len(SplitOn(text, NL))]

\* the line the item handler joins in this step
JoinedLine == LastLine(stack'[Len(stack)].curSnippet)

\* C12: every item of a bullet list is rendered as the line "- " + text and
\* every item of an ordered list as "<n>. " + text, at every nesting depth
\* and whatever kind the enclosing list has (the kind of the item's list is
\* the handler that waits for the context the item is walked in).
ListMarkers ==
    [][ AtItemParagraph =>
          IF Caller.call = "bullet"
          THEN JoinedLine = <<"-", SP>> \o ItemText
          ELSE \E n \in 1..9 : JoinedLine = Itoa(n) \o <<".", SP>> \o ItemText ]_vars

\* the number of lists open at index i of a token slice
ListDepth(tokens, i) ==
    Cardinality({k \in 0..(i - 1) :
                    At(tokens, k).kind \in {"BulletListOpen", "OrderedListOpen"}})
    - Cardinality({k \in 0..(i - 1) :
                    At(tokens, k).kind \in {"BulletListClose", "OrderedListClose"}})

\* the position, counted from 1, of the item of the list itself (not of a
\* nested list) that index i of the list's token slice lies in
ItemNumber(tokens, i) ==
    Cardinality({j \in 0..i : At(tokens, j).kind = "ListItemOpen" /\ ListDepth(tokens, j) = 0})

\* C13: within one ordered list the numbers printed on its successive items
\* are 1, 2, 3, ... in document order, also when an item between them
\* contains a nested list.
OrderedNumbering ==
    [][ (AtItemParagraph /\ Caller.call = "ordered") =>
          StartsWith(JoinedLine, Itoa(ItemNumber(Top.tokens, Top.startAt)) \o <<".", SP>>)
      ]_vars

\* C14: when the token at the walker's cursor has a kind with no entry in
\* closeTypes, the walker skips exactly that token: the cursor becomes its
\* index + 1 (so that the blocks after it are dispatched).
UnpairedTokenSkipped ==
    [][ (Walking /\ closeTypes(CurKind) = "nil")
        => stack'[Len(stack)].startAt = Top.startAt + 1 ]_vars

\* C15: in every context, root or clone, 0 <= startAt <= endAt <= len(tokens).
CursorInvariant ==
    \A i \in 1..Len(stack) :
       /\ 0 <= stack[i].startAt
       /\ stack[i].startAt <= stack[i].endAt
       /\ stack[i].endAt <= Len(stack[i].tokens)

\* the walk of a context has left its loop and applied its last chunk
Flushed(mc) == mc.flushed /\ mc.startAt >= mc.endAt

\* a step is possible: the context on top runs a loop (every token kind has
\* a case), or it has returned to the handler that waits for it or to SplitText
CanStep ==
    \/ Top.call = "none" /\ ~Top.flushed
    \/ Top.flushed /\ Len(stack) = 1
    \/ Top.flushed /\ Len(stack) >= 2 /\ Caller.call \in {"quote", "bullet", "ordered"}

\* C16: the walk terminates.  It never stops before SplitText has returned;
\* every step of the walker loop and of the list-item loop moves the cursor
\* of its context forward (a handler that walks a clone does so when the
\* clone has returned, and does not move the cursor back before); the cursor
\* stays within len(tokens) + 1 and a clone has fewer tokens than the context
\* that made it; a context leaves its loop only at cursor >= bound, applies
\* its last chunk once and is not touched after that.
WalkTerminates ==
    /\ [](~done => CanStep)
    /\ [](\A i \in 1..Len(stack) : stack[i].startAt <= Len(stack[i].tokens) + 1)
    /\ [][ /\ (Len(stack') = Len(stack) /\ ~Top.flushed /\ ~stack'[Len(stack)].flushed)
              => stack'[Len(stack)].startAt > Top.startAt
           /\ (Len(stack') = Len(stack) + 1)
              => /\ stack'[Len(stack)].startAt >= Top.startAt
                 /\ Len(stack'[Len(stack')].tokens) < Len(Top.tokens)
           /\ (Len(stack') = Len(stack) - 1)
              => /\ Flushed(Top)
                 /\ stack'[Len(stack')].startAt > Caller.startAt
           /\ \A i \in 1..Len(stack) :
                 /\ (i <= Len(stack') /\ stack'[i].flushed) => Flushed(stack'[i])
                 /\ (i <= Len(stack') /\ stack[i].flushed) => stack'[i] = stack[i]
           /\ done' => Flushed(Root) /\ Len(stack) = 1
         ]_vars

\* C16 witness: SplitText has returned from a walk that went through the items
\* of a list nested in an item
WalkFinished ==
    /\ done /\ Flushed(Root)
    /\ \E i \in 1..Len(Root.tokens) :
          Root.tokens[i].kind = "ListItemOpen" /\ ListDepth(Root.tokens, i - 1) = 2

\* the open kinds that are keys of closeTypes, and all kinds of the tokenizer
\* that open or close a region
PairedOpen ==
    {"HeadingOpen", "BulletListOpen", "OrderedListOpen", "ParagraphOpen", "BlockquoteOpen",
     "ListItemOpen", "TableOpen", "TheadOpen", "TbodyOpen"}

OpenKinds == PairedOpen \cup {"TrOpen", "ThOpen", "TdOpen"}

CloseKinds ==
    {"HeadingClose", "BulletListClose", "OrderedListClose", "ParagraphClose",
     "BlockquoteClose", "ListItemClose", "TableClose", "TheadClose", "TbodyClose",
     "TrClose", "ThClose", "TdClose"}

\* the first index from j on at which every region opened since the open
\* token, its own included, is closed again (depth: the regions open at j)
RECURSIVE MatchScan(_, _, _)
MatchScan(tokens, j, depth) ==
    IF j >= Len(tokens) THEN j
    ELSE LET kind == At(tokens, j).kind
             d    == IF kind \in OpenKinds THEN depth + 1
                     ELSE IF kind \in CloseKinds THEN depth - 1
                     ELSE depth
         IN  IF d = 0 THEN j ELSE MatchScan(tokens, j + 1, d)

\* the close token that matches the open token at index i of a well-nested slice
MatchingClose(tokens, i) == MatchScan(tokens, i + 1, 1)

\* C17: for every open token whose kind is a key of closeTypes, in the token
\* slice of every context, indexOfCloseTag returns the index of the close
\* token that matches it (of the paired close kind), same-kind nesting
\* counted: not an inner close token and not the end of the slice.
TagMatching ==
    \A f \in 1..Len(stack) :
       \A i \in 0..(Len(stack[f].tokens) - 1) :
          At(stack[f].tokens, i).kind \in PairedOpen =>
             LET r == indexOfCloseTag(stack[f].tokens, i)
             IN  /\ r = MatchingClose(stack[f].tokens, i)
                 /\ r < Len(stack[f].tokens)
                 /\ At(stack[f].tokens, r).kind = closeTypes(At(stack[f].tokens, i).kind)

\* C17 witness: the bullet list handler waits for the walk of its items, an
\* item holds a nested bullet list, and the handler's endAt is the close
\* token of the outer list, after the close token of the inner one
NestedListMatched ==
    /\ Len(stack) >= 2
    /\ Root.call = "bullet"
    /\ Root.callEnd = MatchingClose(Root.tokens, Root.startAt - 1)
    /\ \E k \in Root.startAt..(Root.callEnd - 1) : At(Root.tokens, k).kind = "BulletListClose"

\* the item handler joins the line of an item in this step: the pending
\* snippet is Top.curSnippet, the fragment is JoinedLine, and the step does
\* what join does when it closes the pending snippet at the given combined
\* length (the context of an item has no header title, so a pending snippet
\* within the budget is closed as the chunk that is the snippet itself)
JoinsAsAt(combined) ==
    LET pending == Top.curSnippet
        after   == stack'[Len(stack)]
    IN  IF pending = <<>>
        THEN after.curSnippet = JoinedLine /\ after.chunks = Top.chunks
        ELSE IF combined >= Top.chunkSize
        THEN /\ after.curSnippet = JoinedLine
             /\ Len(pending) <= Budget => after.chunks = Append(Top.chunks, pending)
        ELSE /\ after.curSnippet = pending \o <<NL>> \o JoinedLine
             /\ after.chunks = Top.chunks

\* C18 as stated: join closes a non-empty pending snippet first exactly when
\* len(pending) + 1 + len(fragment) >= chunkSize, and otherwise concatenates
\* pending, a newline and the fragment; an empty pending snippet is replaced
\* by the fragment.
JoinCountsNewline ==
    [][ AtItemParagraph =>
          JoinsAsAt(Len(Top.curSnippet) + 1 + Len(JoinedLine)) ]_vars

\* C18 amended: the same with the threshold len(pending) + len(fragment) >=
\* chunkSize: the newline is not counted, so the pending snippet is closed
\* when the concatenation would exceed chunkSize, not when it reaches it.
JoinIgnoresNewline ==
    [][ AtItemParagraph =>
          JoinsAsAt(Len(Top.curSnippet) + Len(JoinedLine)) ]_vars

\* C18 witness: in the context of a list's items the lines of two items were
\* concatenated to a snippet of exactly chunkSize runes, with nothing closed
JoinedUpToChunkSize ==
    /\ Len(stack) >= 2
    /\ Caller.call \in {"bullet", "ordered"}
    /\ Top.chunks = <<>>
    /\ Len(SplitOn(Top.curSnippet, NL)) = 2
    /\ Len(Top.curSnippet) = Top.chunkSize

\* the context on top closes a pending snippet now: by the heading handler or
\* by the final flush
ClosesPendingSnippet ==
    /\ Running /\ Top.mode = "walk"
    /\ \/ Top.startAt >= Top.endAt
       \/ /\ CurKind = "HeadingOpen"
          /\ At(Top.tokens, Top.startAt + 1).kind = "Inline"
    /\ Top.curSnippet # <<>>

\* a chunk without the line of the header title that is set when it is emitted
Untitled(chunk) ==
    IF Top.hTitle # <<>> /\ StartsWith(chunk, Top.hTitle \o <<NL>>)
    THEN SubSeq(chunk, Len(Top.hTitle) + 2, Len(chunk))
    ELSE chunk

\* C19: close emits a pending snippet of length <= chunkSize + chunkOverlap
\* as one chunk without calling the second splitter; it hands a longer one
\* to the second splitter and emits every non-empty piece it returns as a
\* chunk of its own, in the order returned (when it returns none, no piece
\* is emitted: nothing, or the header title alone); in both cases the
\* pending snippet is empty afterwards.  The chunks are compared without the
\* header title line that close puts before each.
CloseEmits ==
    [][ ClosesPendingSnippet =>
          LET after  == stack'[Len(stack)]
              bodies == [i \in 1..Len(Emitted) |-> Untitled(Emitted[i])]
              pieces == NonEmpty(SecondSplitter(Top.curSnippet, Top.chunkSize))
          IN  /\ after.curSnippet = <<>>
              /\ IF Len(Top.curSnippet) <= Top.chunkSize + Top.chunkOverlap
                 THEN after.resplits = Top.resplits /\ bodies = <<Top.curSnippet>>
                 ELSE /\ after.resplits = Top.resplits + 1
                      /\ IF pieces # <<>> THEN bodies = pieces
                         ELSE Emitted \in {<<>>, <<Top.hTitle>>} ]_vars

\* C19 witness: the context that walked the one item of a bullet list has
\* closed the item's line at its final flush, through the second splitter,
\* which returned several pieces
ClosedThroughSecondSplitter ==
    /\ Len(stack) >= 2 /\ Caller.call = "bullet"
    /\ Len(SelectSeq(Top.tokens, LAMBDA t : t.kind = "ListItemOpen")) = 1
    /\ Top.flushed /\ Top.curSnippet = <<>>
    /\ Top.resplits = 1
    /\ Len(Top.chunks) >= 2

Chars(text) == {text[i] : i \in 1..Len(text)}

\* the blocks of a document that are headings (at the top level)
IsHeading(name) == name \in {"H3", "G1"}

\* the content characters of the blocks between the block at j (j = 0: the
\* start of the document) and the next heading
SectionChars(d, j) ==
    UNION {Chars(Block(d[k]).content) :
              k \in {n \in (j + 1)..Len(d) : \A m \in (j + 1)..n : ~IsHeading(d[m])}}

\* the lines of the headings of the document
HeadingLines == {Block(doc[j]).raw : j \in {n \in 1..Len(doc) : IsHeading(doc[n])}}

\* the chunk carries content of one section only: of the section of the
\* heading whose line is its first line, or of the start of the document
\* when its first line is no heading's
OfOneSection(chunk) ==
    \E j \in 0..Len(doc) :
       /\ IF FirstLine(chunk) \in HeadingLines
          THEN j >= 1 /\ IsHeading(doc[j]) /\ FirstLine(chunk) = Block(doc[j]).raw
          ELSE j = 0
       /\ Chars(Project(chunk, ContentChars)) \subseteq SectionChars(doc, j)

\* C20: the pending snippet of a context is empty whenever its header title
\* has changed, and no returned chunk carries the line of one heading
\* together with content of the section of another heading.
NoBleedAcrossHeadings ==
    [][ /\ \A i \in 1..Len(stack) :
              (i <= Len(stack') /\ stack'[i].hTitle # stack[i].hTitle)
              => stack'[i].curSnippet = <<>>
        /\ done' => \A i \in 1..Len(result') : OfOneSection(result'[i]) ]_vars

\* C20 witness: SplitText has returned chunks with content under two
\* different heading lines
TwoSectionsReturned ==
    /\ done
    /\ \E i, j \in 1..Len(result) :
          /\ i < j
          /\ FirstLine(result[i]) \in HeadingLines
          /\ FirstLine(result[j]) \in HeadingLines
          /\ FirstLine(result[i]) # FirstLine(result[j])
          /\ Project(result[i], ContentChars) # <<>>
          /\ Project(result[j], ContentChars) # <<>>

\* the loop of splitText is at a heading whose next token is not an Inline
AtMalformedHeading ==
    /\ Walking /\ CurKind = "HeadingOpen"
    /\ At(Top.tokens, Top.startAt + 1).kind # "Inline"

\* C21: at a heading whose next token is not an Inline the handler leaves
\* the header title, the header-emitted flag, the pending snippet and the
\* emitted chunks as they are (and every other field of the context): it
\* only moves the cursor to just past the close tag of the heading.
MalformedHeadingSkipped ==
    [][ AtMalformedHeading =>
          stack' = SetTop([Top EXCEPT
                             !.startAt = MatchingClose(Top.tokens, Top.startAt) + 1])
      ]_vars

\* C21 witness: the root context is just past a heading without text, and
\* still has the title of the heading before it and the lines of a list as
\* its pending snippet
MalformedHeadingPassed ==
    /\ Len(stack) = 1 /\ ~done
    /\ Root.startAt > 2
    /\ At(Root.tokens, Root.startAt - 1).kind = "HeadingClose"
    /\ At(Root.tokens, Root.startAt - 2).kind = "HeadingOpen"
    /\ Root.hTitle # <<>>
    /\ Root.curSnippet # <<>>
    /\ Root.chunks = <<>>

\* the lines of a sequence of texts, in order
LinesOf(texts) == Concat([i \in 1..Len(texts) |-> SplitOn(texts[i], NL)])

\* a chunk without the line of the given header title
UntitledBy(title, chunk) ==
    IF title # <<>> /\ StartsWith(chunk, title \o <<NL>>)
    THEN SubSeq(chunk, Len(title) + 2, Len(chunk))
    ELSE chunk

\* the context a returning handler leaves behind, and what was pending in it
Resumed == stack'[Len(stack) - 1]
PendingLines == IF Caller.curSnippet = <<>> THEN <<>> ELSE SplitOn(Caller.curSnippet, NL)

\* the chunks the returning handler emits in this step, without title lines
EmittedOnReturn ==
    LET new == SubSeq(Resumed.chunks, Len(Caller.chunks) + 1, Len(Resumed.chunks))
    IN  [i \in 1..Len(new) |-> UntitledBy(Caller.hTitle, new[i])]

\* C22: when the blockquote handler returns, the outer pending snippet is
\* closed, and what it emitted is what was pending followed by the lines of
\* the chunks the sub-context returned, in the order returned, each line
\* with "> " before it: line for line when the second splitter was not
\* called in the step, and word for word when it was called and reported no
\* error.
QuotePrefixed ==
    [][ Returning("quote") =>
          LET lines  == LinesOf(Top.chunks)
              quoted == [i \in 1..Len(lines) |-> <<">", SP>> \o lines[i]]
              joined == PendingLines \o quoted
          IN  /\ Resumed.curSnippet = <<>>
              /\ Resumed.resplits = Caller.resplits => LinesOf(EmittedOnReturn) = joined
              /\ ~splitterFails =>
                    Words(JoinWith(EmittedOnReturn, <<NL>>)) = Words(JoinWith(joined, <<NL>>))
      ]_vars

\* C22 witness: the root context is just past a blockquote and its one chunk
\* holds the lines pending before it and then two quoted lines
QuoteJoinedAfterPending ==
    /\ Len(stack) = 1 /\ ~done
    /\ Root.startAt > 1
    /\ At(Root.tokens, Root.startAt - 1).kind = "BlockquoteClose"
    /\ Root.curSnippet = <<>>
    /\ Len(Root.chunks) = 1
    /\ LET lines == SplitOn(Root.chunks[1], NL)
       IN  /\ Len(lines) >= 3
           /\ ~StartsWith(lines[1], <<">", SP>>)
           /\ StartsWith(lines[Len(lines) - 1], <<">", SP>>)
           /\ StartsWith(lines[Len(lines)], <<">", SP>>)

\* C23: the sub-context of a blockquote starts with an empty header title,
\* and the header title of the context whose blockquote handler is running
\* stays as it is from the call of the handler to its return, whatever
\* headings the sub-context meets.
QuoteTitleIsolated ==
    /\ [][ (Walking /\ CurKind = "BlockquoteOpen") =>
             /\ Len(stack') = Len(stack) + 1
             /\ stack'[Len(stack')].hTitle = <<>>
             /\ stack'[Len(stack)].call = "quote"
             /\ stack'[Len(stack)].hTitle = Top.hTitle ]_vars
    /\ [][ \A i \in 1..Len(stack) :
             stack[i].call = "quote" =>
                /\ i <= Len(stack')
                /\ stack'[i].hTitle = stack[i].hTitle ]_vars

\* C23 witness: the root context is just past a blockquote with a heading
\* in it: the quoted heading is in a chunk of the root, whose header title
\* is still that of the heading before the blockquote
QuotedHeadingKeptInside ==
    /\ Len(stack) = 1 /\ ~done
    /\ Root.startAt > 1
    /\ At(Root.tokens, Root.startAt - 1).kind = "BlockquoteClose"
    /\ Root.hTitle = <<"#", SP, "G">>
    /\ \E i \in 1..Len(Root.chunks) :
          Contains(Root.chunks[i], <<">", SP, "#", "#", SP, "Q">>)

\* the number of spaces a line starts with
RECURSIVE IndentOf(_)
IndentOf(line) ==
    IF line # <<>> /\ Head(line) = SP THEN 1 + IndentOf(Tail(line)) ELSE 0

\* the indexes of the inline texts of the list items of the document
ItemInlines ==
    {i \in 0..(Len(Root.tokens) - 1) :
        /\ At(Root.tokens, i).kind = "Inline"
        /\ At(Root.tokens, i - 2).kind = "ListItemOpen"}

\* the line of the item with its indentation and the longest marker is no
\* longer than the chunk size, so that no second split cuts it
LineFits(i) ==
    2 * (ListDepth(Root.tokens, i) - 1) + 3 + Len(At(Root.tokens, i).content)
        <= cfg.chunkSize

\* the lines the outermost context holds: emitted or pending
PendingOf == IF Root.curSnippet = <<>> THEN <<>> ELSE SplitOn(Root.curSnippet, NL)
RootLines ==
    {LinesOf(Root.chunks)[k] : k \in 1..Len(LinesOf(Root.chunks))}
    \cup {PendingOf[k] : k \in 1..Len(PendingOf)}

\* the lines the outermost context holds after the step
RootLinesAfter ==
    LET after   == stack'[1]
        pending == IF after.curSnippet = <<>> THEN <<>> ELSE SplitOn(after.curSnippet, NL)
    IN  {LinesOf(after.chunks)[k] : k \in 1..Len(LinesOf(after.chunks))}
        \cup {pending[k] : k \in 1..Len(pending)}

RECURSIVE OpenLists(_)
OpenLists(k) ==
    IF k = 0 THEN 0
    ELSE OpenLists(k - 1) + ListDepth(stack[k].tokens, stack[k].startAt)

AtListOpen == (Walking \/ InItem) /\ CurKind \in {"BulletListOpen", "OrderedListOpen"}

\* C25: indentLevel is incremented when a list handler is entered and
\* decremented when it returns; in every context it is never negative and
\* equals the number of lists open around the cursor, and it is 0 in the
\* root context when the walk has finished.
IndentLevelBalanced ==
    /\ [](\A k \in 1..Len(stack) :
            /\ stack[k].indentLevel >= 0
            /\ stack[k].indentLevel = OpenLists(k))
    /\ []((done \/ Root.flushed) => Root.indentLevel = 0)
    /\ [][ AtListOpen => stack'[Len(stack)].indentLevel = Top.indentLevel + 1 ]_vars
    /\ [][ (Returning("bullet") \/ Returning("ordered")) =>
             Resumed.indentLevel = Caller.indentLevel - 1 ]_vars

\* C25 witness: the walk is in the innermost of three bullet lists nested in
\* each other, with indentLevel 3
IndentLevelThree ==
    /\ Len(stack) = 4
    /\ Top.indentLevel = 3
    /\ \A k \in 1..3 : stack[k].call = "bullet"

\* the handler of a list nested in a list item returns
NestedListReturning ==
    /\ Returning("bullet") \/ Returning("ordered")
    /\ Caller.mode = "item"

\* C26: when the handler of a nested list returns, the context that walks
\* the items of the enclosing list has the list counter it had when the
\* nested list was entered and the list kind of the enclosing list: the flag
\* the nested handler does not set is as it was, and orderedList still
\* holds in the items of an ordered list.
ListStateRestored ==
    [][ NestedListReturning =>
          /\ Resumed.listOrder = Caller.listOrder
          /\ Returning("bullet") => Resumed.orderedList = Caller.orderedList
          /\ Returning("ordered") => Resumed.bulletList = Caller.bulletList
          /\ stack[Len(stack) - 2].call = "ordered" => Resumed.orderedList
      ]_vars

\* what the inline of an item is to be resolved to: the link of an Inline
\* with the three children LinkOpen, Text, LinkClose, nothing for one whose
\* first child is an Image, the literal text of any other
Resolved(inline) ==
    LET kinds == [k \in 1..Len(inline.children) |-> inline.children[k].kind]
    IN  IF kinds = <<"LinkOpen", "Text", "LinkClose">>
        THEN <<"[">> \o inline.children[2].content \o <<"]", "(">>
                     \o inline.children[1].content \o <<")">>
        ELSE IF kinds # <<>> /\ kinds[1] = "Image" THEN <<>>
        ELSE inline.content

\* C27: the result of splitInline is "[text](href)" for an Inline with
\* exactly the three children LinkOpen, Text, LinkClose, empty for one whose
\* first child is an Image, and the literal text of the Inline otherwise;
\* the item handler joins a line that ends with the result, and joins
\* nothing when the result is empty.
InlineResolved ==
    [][ AtItemParagraph =>
          LET inline == At(Top.tokens, Top.startAt + 1)
              after  == stack'[Len(stack)]
          IN  /\ splitInline(inline) = Resolved(inline)
              /\ IF Resolved(inline) = <<>>
                 THEN after.curSnippet = Top.curSnippet /\ after.chunks = Top.chunks
                 ELSE EndsWith(JoinedLine, Resolved(inline))
      ]_vars

\* C28: the chunks the table handler emits for the table are, without the
\* header title line, the header block followed by one body row each, or
\* the header block alone for a table without body rows, and nothing else:
\* a snippet that was pending when the handler started is in none of them
\* (it is closed as a chunk of its own before them).  Stated for the steps
\* in which the second splitter is not called.
TableChunksPure ==
    [][ (AtTable /\ stack'[Len(stack)].resplits = Top.resplits) =>
          LET header0  == splitTableHeader(Top.tokens, Top.startAt + 1)
              bodies0  == splitTableBody(Top.tokens,
                                         indexOfCloseTag(Top.tokens, Top.startAt + 1) + 1)
              promoted == (\A i \in 1..Len(header0) : header0[i] = <<>>) /\ bodies0 # <<>>
              header   == IF promoted THEN bodies0[1] ELSE header0
              rows     == IF promoted THEN Tail(bodies0) ELSE bodies0
              headerMD == RowMD(header) \o <<NL>> \o SeparatorMD(Len(header))
              expected == IF rows = <<>> THEN <<headerMD>>
                          ELSE [i \in 1..Len(rows) |-> headerMD \o <<NL>> \o RowMD(rows[i])]
              bodies   == [i \in 1..Len(Emitted) |-> UntitledBy(Top.hTitle, Emitted[i])]
          IN  \/ bodies = expected
              \/ Top.curSnippet # <<>> /\ bodies = <<Top.curSnippet>> \o expected
      ]_vars

IsPrefix(s, t) == Len(s) <= Len(t) /\ SubSeq(t, 1, Len(s)) = s

\* C29: in every context the sequence of emitted chunks only grows by
\* appending, whatever the step joins or closes, and no emitted chunk is the
\* empty string; the same holds of the chunks SplitText returns.
ChunksAppendOnly ==
    /\ [](\A k \in 1..Len(stack) :
            \A i \in 1..Len(stack[k].chunks) : stack[k].chunks[i] # <<>>)
    /\ [](\A i \in 1..Len(result) : result[i] # <<>>)
    /\ [][ \A k \in 1..Len(stack) :
             k <= Len(stack') => IsPrefix(stack[k].chunks, stack'[k].chunks) ]_vars

\* C29 witness: the root context has made its final flush after it called
\* the second splitter, and holds three chunks or more
ChunksAccumulated ==
    /\ Root.flushed
    /\ Root.resplits >= 1
    /\ Len(Root.chunks) >= 3

====
